---- MODULE Spec2Model ----
(***************************************************************************)
(* Model of the asynchronous analysis pipeline of potpie-docker:           *)
(*   POST /analyze (src/src/index.js) -> BullMQ queue -> AnalysisWorker    *)
(*   .processJob (src/src/constants.js, the worker that passes io to the   *)
(*   poller) -> PotpieClient.waitForParsingComplete (src/src/potpieClient  *)
(*   .js, second definition) -> Socket.IO room project_<id>.               *)
(* BullMQ and Socket.IO are libraries: the queue is modelled by what the   *)
(* options given in the source make it do (custom jobId, attempts,         *)
(* backoff), the room by the sequence of events emitted to it.             *)
(***************************************************************************)
EXTENDS Integers, Sequences, FiniteSets, TLC

\* ------------------------------------------------------------------ bounds
NumProjects == 2
MaxRequests == 2
MaxPolls == 2
MaxSnippets == 2
MaxFaults == 1
MaxLookups == 1
NumSockets == 1

\* ------------------------------------------------------ program constants
maxRetries == 3
maxConcurrency == 5
removeOnComplete == 10
removeOnFail == 50

ProjectIds == 1..NumProjects
Requests == 1..MaxRequests
Lookups == 1..MaxLookups
Sockets == 1..NumSockets

VARIABLES
    jobs,         \* the BullMQ queue: sequence of job records, in order of creation
    published,    \* per room, the status_update / analysis_* events emitted, in order
    parsingUpdate,\* per room, the status of the last parsing_update event ("none" if none)
    requests,     \* the POST /analyze requests and how far each handler has come
    faults,       \* how many more failures the environment (provider, agent) may cause
    analysisQueue,\* the Queue object of index.js: "unset", "ready" or "offline" (Redis unreachable)
    lookups,      \* the GET /status/:projectId requests and what each was answered
    sockets,      \* the Socket.IO clients: the room each is in and what each was sent
    shutdown,     \* how far gracefulShutdown has come: "running" while it has not been called
    poller,       \* one call of waitForParsingComplete on its own: the answers it gets, its result
    concurrency   \* the concurrency option the Worker was created with

vars == <<jobs, published, parsingUpdate, requests, faults, analysisQueue, lookups, sockets,
          shutdown, poller, concurrency>>

\* ------------------------------------------------------------ JS values
\* A JSON number that may be missing (undefined): def = FALSE is undefined.
Undef == [def |-> FALSE, n |-> 0]
Num(k) == [def |-> TRUE, n |-> k]
OptNums(hi) == {Undef} \cup {Num(k) : k \in 0..hi}

\* JS truthiness of an optional number: undefined and 0 are falsy.
Truthy(v) == v.def /\ v.n # 0

\* a || b on optional numbers
OrElse(a, b) == IF Truthy(a) THEN a ELSE b

\* The value of agentOutput.snippets: missing, an array, or a non-array object.
SnippetArrays == {[kind |-> "array", items |-> [i \in 1..n |-> i]] : n \in 0..MaxSnippets}
NoSnippets == [kind |-> "absent", items |-> << >>]
ObjSnippets == [kind |-> "object", items |-> << >>]
SnippetValues == SnippetArrays \cup {NoSnippets, ObjSnippets}

\* x.length in JS: defined for arrays, undefined for a plain object.
JsLength(s) == IF s.kind = "array" THEN Num(Len(s.items)) ELSE Undef

\* agentOutput.metadata: missing, or an object carrying its own counters.
NoMeta == [present |-> FALSE, total_nodes_found |-> Undef, processed_nodes |-> Undef]
MetaValues == {NoMeta} \cup
    [present : {TRUE}, total_nodes_found : OptNums(MaxSnippets + 1),
     processed_nodes : OptNums(MaxSnippets + 1)]

\* What JSON.parse can give back, as far as the worker reads it: an object
\* with (some of) the keys snippets, analysis_response, metadata.
EmptyObject == [snippets |-> NoSnippets, analysis_response |-> "absent", metadata |-> NoMeta]
ParsedObjects == [snippets : SnippetValues, analysis_response : {"absent", "object"},
                  metadata : MetaValues]

\* The agent's message as extractJsonFromMessage sees it:
\*   empty   data.message is missing or ""
\*   string  data.message is a string (message.match exists)
\*   fence   the ```json ... ``` regex matches
\*   braces  the loose { ... } regex matches
\*   parse   what JSON.parse does with the cleaned text: "throws", "null"
\*           (a JSON null) or "object" (then value is the object)
NoMessage == [empty |-> TRUE, string |-> FALSE, fence |-> FALSE, braces |-> FALSE,
              parse |-> "throws", value |-> EmptyObject]
NonStringMessage == [empty |-> FALSE, string |-> FALSE, fence |-> FALSE, braces |-> FALSE,
                     parse |-> "throws", value |-> EmptyObject]
Messages == {NoMessage, NonStringMessage} \cup
            [empty : {FALSE}, string : {TRUE}, fence : BOOLEAN, braces : BOOLEAN,
             parse : {"throws", "null"}, value : {EmptyObject}] \cup
            [empty : {FALSE}, string : {TRUE}, fence : BOOLEAN, braces : BOOLEAN,
             parse : {"object"}, value : ParsedObjects]

\* What sendMessage resolves to: success:false, or success:true with a body
\* that is null, or a body with a (possibly missing) message.
AgentResponses == {[success |-> FALSE, dataNull |-> FALSE, message |-> NoMessage],
                   [success |-> TRUE, dataNull |-> TRUE, message |-> NoMessage]} \cup
                  {[success |-> TRUE, dataNull |-> FALSE, message |-> m] : m \in Messages}

\* The responses the pipeline is run with: one for every way through
\* processJob's handling of the response (failed call, null body, no message,
\* a message that is no string, no JSON located, JSON that does not parse, an empty object, and objects
\* whose own counters disagree with the snippets they carry).
Text(fence, braces, parse, value) ==
    [success |-> TRUE, dataNull |-> FALSE,
     message |-> [empty |-> FALSE, string |-> TRUE, fence |-> fence, braces |-> braces,
                  parse |-> parse, value |-> value]]
SampleResponses ==
    {[success |-> FALSE, dataNull |-> FALSE, message |-> NoMessage],
     [success |-> TRUE, dataNull |-> TRUE, message |-> NoMessage],
     [success |-> TRUE, dataNull |-> FALSE, message |-> NoMessage],
     [success |-> TRUE, dataNull |-> FALSE, message |-> NonStringMessage],
     Text(FALSE, FALSE, "throws", EmptyObject),
     Text(FALSE, TRUE, "throws", EmptyObject),
     Text(TRUE, FALSE, "object", EmptyObject),
     Text(FALSE, TRUE, "object",
          [snippets |-> [kind |-> "array", items |-> [i \in 1..MaxSnippets |-> i]],
           analysis_response |-> "object",
           metadata |-> [present |-> TRUE, total_nodes_found |-> Num(1),
                         processed_nodes |-> Num(MaxSnippets + 1)]])}

\* ------------------------------------------------- extractJsonFromMessage
\* What the call does: throws (data is null, or message has no match
\* method), returns null (found = FALSE: no message, no JSON located,
\* JSON.parse threw; a parsed JSON null is falsy for the caller just the
\* same), or returns the parsed object.
extractJsonFromMessage(resp) ==
    IF resp.dataNull THEN [throws |-> TRUE, found |-> FALSE, value |-> EmptyObject]
    ELSE IF resp.message.empty THEN [throws |-> FALSE, found |-> FALSE, value |-> EmptyObject]
    ELSE IF ~resp.message.string THEN [throws |-> TRUE, found |-> FALSE, value |-> EmptyObject]
    ELSE IF ~resp.message.fence /\ ~resp.message.braces
         THEN [throws |-> FALSE, found |-> FALSE, value |-> EmptyObject]
    ELSE IF resp.message.parse # "object"
         THEN [throws |-> FALSE, found |-> FALSE, value |-> EmptyObject]
    ELSE [throws |-> FALSE, found |-> TRUE, value |-> resp.message.value]

\* The response is a text in which no JSON object was found.
NoJsonIn(resp) ==
    resp.success /\ ~extractJsonFromMessage(resp).throws /\ ~extractJsonFromMessage(resp).found

\* Steps 3 and 4 of processJob on the response of sendMessage: does it
\* throw, and if not, which agentOutput does it go on with.
\*   if (!response.success) throw ...
\*   const agentOutput = this.extractJsonFromMessage(response?.data) || {};
agentStep_NoFallback(resp) ==
    IF ~resp.success \/ extractJsonFromMessage(resp).throws \/ ~extractJsonFromMessage(resp).found
    THEN [throws |-> TRUE, output |-> EmptyObject]
    ELSE [throws |-> FALSE, output |-> extractJsonFromMessage(resp).value]

agentStep(resp) ==
    IF ~resp.success \/ extractJsonFromMessage(resp).throws
    THEN [throws |-> TRUE, output |-> EmptyObject]
    ELSE IF extractJsonFromMessage(resp).found
         THEN [throws |-> FALSE, output |-> extractJsonFromMessage(resp).value]
         ELSE [throws |-> FALSE, output |-> EmptyObject]

\* agentOutput.snippets || []
snippetsOf(out) ==
    IF out.snippets.kind = "absent" THEN [kind |-> "array", items |-> << >>]
    ELSE out.snippets

\* agentOutput.metadata?.total_nodes_found || snippets.length
totalNodesFound(out) ==
    OrElse(out.metadata.total_nodes_found, JsLength(snippetsOf(out)))

\* metadata: { ...agentOutput.metadata, parsed_at, total_nodes_found,
\* processed_nodes, ... }: the keys written after the spread win.
resultMetadata_SpreadLast(out) ==
    [total_nodes_found |-> IF out.metadata.total_nodes_found.def
                           THEN out.metadata.total_nodes_found ELSE totalNodesFound(out),
     processed_nodes   |-> IF out.metadata.processed_nodes.def
                           THEN out.metadata.processed_nodes ELSE JsLength(snippetsOf(out))]

resultMetadata(out) ==
    [total_nodes_found |-> totalNodesFound(out),
     processed_nodes   |-> JsLength(snippetsOf(out))]

\* the object processJob returns
vectorDbData(out) ==
    [snippets          |-> snippetsOf(out),
     snippets_count    |-> JsLength(snippetsOf(out)),
     analysis_response |-> IF out.analysis_response = "absent" THEN "empty" ELSE "object",
     metadata          |-> resultMetadata(out)]

\* ------------------------------------------------------------ Socket.IO
\* io.to(room).emit(type, {status, ...}): the event is appended to what the
\* room has been sent.
Ev(type, status) == [type |-> type, status |-> status]
emit(pub, p, type, status) == [pub EXCEPT ![p] = Append(@, Ev(type, status))]

\* emitJobUpdate(projectId, status, message)
emitJobUpdate(pub, p, status) == emit(pub, p, "status_update", status)

\* A client socket: pc is "connected" (in no room), "joining" (socket.join
\* done, the join_project handler waiting for the queue), "joined" or "gone"
\* (disconnected).  received is what the socket was sent, each event with the
\* way it came: "room" (io.to(room).emit) or "socket" (socket.emit).
\* joinedAt, leftAt, jobAtJoin and jobAtSend are history: how many events
\* the room had been sent when the socket joined and when it left, and the
\* job of the room (its state and the place of its processJob call; << >> if
\* there was none) when the socket joined and when the handler read the job.
NoSocket ==
    [pc |-> "connected", room |-> 0, received |-> << >>, joinedAt |-> 0, leftAt |-> 0,
     jobAtJoin |-> << >>, jobAtSend |-> << >>]

Sent(type, status, via) == [type |-> type, status |-> status, via |-> via]

\* io.to(room).emit(type, ...) as the sockets see it: every socket that is
\* in the room is sent the event, after what it was sent before.
deliver_Prepend(socks, p, type, status) ==
    [s \in DOMAIN socks |->
        IF socks[s].room = p /\ socks[s].pc \in {"joining", "joined"}
        THEN [socks[s] EXCEPT !.received = <<Sent(type, status, "room")>> \o @]
        ELSE socks[s]]

deliver(socks, p, type, status) ==
    [s \in DOMAIN socks |->
        IF socks[s].room = p /\ socks[s].pc \in {"joining", "joined"}
        THEN [socks[s] EXCEPT !.received = Append(@, Sent(type, status, "room"))]
        ELSE socks[s]]

\* ------------------------------------------------------------ the queue
\* A job as BullMQ keeps it (id, state, attemptsMade, failedReason,
\* returnvalue) together with the position of the processJob call working on
\* it (pc, elapsed, error, result).  error and failedReason stand for the
\* message of the Error: "parsing_failed" (Parsing failed: <details of the
\* failed status request or of the failed/error status>), "parsing_timeout"
\* (Parsing failed: {projectId, maxWaitTime}), "agent_failed" (Failed to
\* create conversation ...), "type_error" (data.message on a null body,
\* message.match on a message that is no string).
\* noJson is history: the agent response last handled had no JSON object.
\* github_token: job.data holds the token the request came with.
\* finishedOn: when the job was completed or failed for good (0: not yet),
\* counted in jobs finished instead of milliseconds.
NewJob(id, token) ==
    [id |-> id, state |-> "waiting", attemptsMade |-> 0, pc |-> "idle", elapsed |-> 0,
     error |-> "none", failedReason |-> "none", result |-> << >>, returnvalue |-> << >>,
     noJson |-> FALSE, github_token |-> token, finishedOn |-> 0]

JobIndexes == DOMAIN jobs
HasJob(q, id) == \E i \in DOMAIN q : q[i].id = id

\* analysisQueue.add(name, data, {jobId: projectId, ...}): BullMQ adds nothing
\* when a job with that id is already stored, whatever its state.
queueAdd_NoJobId(q, id, token) == Append(q, NewJob(id, token))

queueAdd_OnlyWaiting(q, id, token) ==
    IF \E i \in DOMAIN q : q[i].id = id /\ q[i].state = "waiting" THEN q
    ELSE Append(q, NewJob(id, token))

queueAdd(q, id, token) == IF HasJob(q, id) THEN q ELSE Append(q, NewJob(id, token))

\* The time a job finishing now is stamped with: later than every job kept.
RECURSIVE MaxFinishedOn(_)
MaxFinishedOn(q) ==
    IF q = << >> THEN 0
    ELSE LET rest == MaxFinishedOn(Tail(q))
         IN  IF Head(q).finishedOn > rest THEN Head(q).finishedOn ELSE rest

\* removeOnComplete: n / removeOnFail: n -- when a job enters the set of the
\* jobs in state st, BullMQ keeps the n of them that finished last and
\* removes the others.
keepLast_KeepAll(q, st, n) == q

keepLast(q, st, n) ==
    SelectSeq(q, LAMBDA j :
        \/ j.state # st
        \/ Cardinality({k \in DOMAIN q : q[k].state = st /\ q[k].finishedOn > j.finishedOn}) < n)

\* attempts: maxRetries -- after a failed attempt the job is retried while
\* the attempts made stay below the attempts allowed.
retryAllowed_OneMore(made) == made <= maxRetries

retryAllowed_OneLess(made) == made < maxRetries - 1

retryAllowed(made) == made < maxRetries

ActiveCount == Cardinality({i \in JobIndexes : jobs[i].state = "active"})

\* this.maxConcurrency = parseInt(process.env.MAX_CONCURRENT_JOBS) || 5, with
\* env the number parseInt gives (undefined here for NaN: both are falsy).
configuredConcurrency(env) == OrElse(env, Num(maxConcurrency)).n

\* concurrency: n -- the Worker takes another job only while fewer than n of
\* its processor calls are running.
hasCapacity_OneMore(active, n) == active <= n

hasCapacity(active, n) == active < n

\* ------------------------------------------------------------------ Init
\* A POST /analyze request: pc is "idle" (not yet made), "adding" (waiting
\* for analysisQueue.add), "added" or "done" (answered with status).  repo,
\* parse, provider and offline are history: whether the body had a repo,
\* whether parseRepository was called and what status the provider's error
\* response had (0: no response at all), whether Redis was unreachable when
\* the request came.  reply is the status field of the answer's body.
NoRequest ==
    [pc |-> "idle", project |-> 0, status |-> 0, job_id |-> 0, repo |-> FALSE,
     parse |-> "none", provider |-> 0, offline |-> FALSE, reply |-> "none"]

\* A GET /status/:projectId request and its answer (code, source, status,
\* job_id).  inQueue and knows are history: whether the queue held the job
\* and whether the provider knew the project when the request was handled;
\* afterSubmit: a submission for the project had been answered 200 by then.
\* failed_reason is details.failed_reason ("none" for null or no details); the
\* answer has no field for the result of the job.
NoLookup ==
    [pc |-> "idle", project |-> 0, code |-> 0, source |-> "none", status |-> "none",
     job_id |-> 0, failed_reason |-> "none", inQueue |-> FALSE, knows |-> FALSE,
     afterSubmit |-> FALSE]

\* No call of the poller on its own is being looked at.
NoPoller == [pc |-> "none", answers |-> << >>, result |-> << >>]

InitFor(budget, env, RS, PS) ==
    /\ jobs = << >>
    /\ published = [p \in PS |-> << >>]
    /\ parsingUpdate = [p \in PS |-> "none"]
    /\ requests = [r \in RS |-> NoRequest]
    /\ faults = budget
    /\ analysisQueue = "ready"
    /\ lookups = [l \in Lookups |-> NoLookup]
    /\ sockets = [s \in Sockets |-> NoSocket]
    /\ shutdown = "running"
    /\ poller = NoPoller
    /\ concurrency = configuredConcurrency(env)

\* The requests and the projects of the bounds.
InitEnv(budget, env) == InitFor(budget, env, Requests, ProjectIds)

\* MAX_CONCURRENT_JOBS is not set.
InitWith(budget) == InitEnv(budget, Undef)

Init == InitWith(MaxFaults)

\* ------------------------------------------------------- POST /analyze
\* The checks the handler makes before it does anything: the status it
\* answers with at once, 0 when it goes on.
\*   if (!repo) return res.status(400)...
\*   if (!analysisQueue) return res.status(503)...
precheck_NoValidation(repo, queue) == IF queue = "unset" THEN 503 ELSE 0

precheck(repo, queue) ==
    IF ~repo THEN 400 ELSE IF queue = "unset" THEN 503 ELSE 0

\* A request that fails a check is answered at once.
SubmitRejected(r, repo) ==
    /\ requests[r].pc = "idle"
    /\ shutdown # "closed"
    /\ precheck(repo, analysisQueue) # 0
    /\ requests' = [requests EXCEPT ![r] =
                      [@ EXCEPT !.pc = "done", !.repo = repo,
                                !.offline = (analysisQueue = "offline"),
                                !.status = precheck(repo, analysisQueue)]]
    /\ UNCHANGED <<jobs, published, parsingUpdate, faults, analysisQueue, lookups, sockets>>
    /\ UNCHANGED <<shutdown, poller, concurrency>>

\* The status of the provider's error response; 0: the request failed
\* without any response.
ProviderErrorStatuses == {0, 401, 500}

\* parseRepository's catch: status: error.response?.status || 500
errorStatus(st) == IF st = 0 THEN 500 ELSE st

\* res.status(parseResult.error.status || 500)
failureStatus_Always500(es) == 500

failureStatus(es) == IF es = 0 THEN 500 ELSE es

\* parseRepository failed: the provider's status is the response.
SubmitParseFailed(r, repo, st) ==
    /\ requests[r].pc = "idle"
    /\ shutdown # "closed"
    /\ precheck(repo, analysisQueue) = 0
    /\ requests' = [requests EXCEPT ![r] =
                      [@ EXCEPT !.pc = "done", !.repo = repo, !.parse = "failed",
                                !.provider = st,
                                !.offline = (analysisQueue = "offline"),
                                !.status = failureStatus(errorStatus(st))]]
    /\ UNCHANGED <<jobs, published, parsingUpdate, faults, analysisQueue, lookups, sockets>>
    /\ UNCHANGED <<shutdown, poller, concurrency>>

\* The provider names its projects as it likes: the ids are taken in order,
\* an id is new only when all smaller ones have been given out.
Assigned == {requests[r].project : r \in DOMAIN requests} \ {0}
CanAssign(p) == p = 1 \/ (p - 1) \in Assigned

\* Whether the body of request r has a github_token: the odd requests have.
RequestToken(r) == r % 2 = 1

\* parseRepository gave project id p: the job is added under jobId p.
SubmitParsed(r, repo, p) ==
    /\ requests[r].pc = "idle"
    /\ shutdown \in {"running", "stopping"}
    /\ precheck(repo, analysisQueue) = 0
    /\ analysisQueue = "ready"
    /\ CanAssign(p)
    /\ jobs' = queueAdd(jobs, p, RequestToken(r))
    /\ requests' = [requests EXCEPT ![r] =
                      [@ EXCEPT !.pc = "added", !.repo = repo, !.parse = "started",
                                !.project = p, !.job_id = p]]
    /\ UNCHANGED <<published, parsingUpdate, faults, analysisQueue, lookups, sockets>>
    /\ UNCHANGED <<shutdown, poller, concurrency>>

\* The same while Redis cannot be reached: the remote parse is started, and
\* analysisQueue.add waits for the connection (the commands of a connection
\* with maxRetriesPerRequest: null are kept until it is back).
SubmitParsedOffline(r, repo, p) ==
    /\ requests[r].pc = "idle"
    /\ shutdown \in {"running", "stopping"}
    /\ precheck(repo, analysisQueue) = 0
    /\ analysisQueue = "offline"
    /\ CanAssign(p)
    /\ requests' = [requests EXCEPT ![r] =
                      [@ EXCEPT !.pc = "adding", !.repo = repo, !.parse = "started",
                                !.offline = TRUE, !.project = p]]
    /\ UNCHANGED <<jobs, published, parsingUpdate, faults, analysisQueue, lookups, sockets>>
    /\ UNCHANGED <<shutdown, poller, concurrency>>

\* Redis is back: the waiting analysisQueue.add goes through.
SubmitAdded(r) ==
    /\ requests[r].pc = "adding"
    /\ analysisQueue = "ready"
    /\ jobs' = queueAdd(jobs, requests[r].project, RequestToken(r))
    /\ requests' = [requests EXCEPT ![r] =
                      [@ EXCEPT !.pc = "added", !.job_id = requests[r].project]]
    /\ UNCHANGED <<published, parsingUpdate, faults, analysisQueue, lookups, sockets>>
    /\ UNCHANGED <<shutdown, poller, concurrency>>

\* analysisQueue.add on a queue that is being closed throws: the handler's
\* catch answers 500, the remote parse having been started.
SubmitAddThrows(r, repo, p) ==
    /\ requests[r].pc = "idle"
    /\ shutdown = "closing"
    /\ precheck(repo, analysisQueue) = 0
    /\ CanAssign(p)
    /\ requests' = [requests EXCEPT ![r] =
                      [@ EXCEPT !.pc = "done", !.repo = repo, !.parse = "started",
                                !.project = p, !.status = 500]]
    /\ UNCHANGED <<jobs, published, parsingUpdate, faults, analysisQueue, lookups, sockets>>
    /\ UNCHANGED <<shutdown, poller, concurrency>>

\* After queue.add resolved: emit queued, answer with the job handle.
SubmitRespond_AfterWorker(r) ==
    /\ requests[r].pc = "added"
    /\ \E i \in JobIndexes : jobs[i].id = requests[r].project /\ jobs[i].state = "completed"
    /\ published' = emitJobUpdate(published, requests[r].project, "queued")
    /\ sockets' = deliver(sockets, requests[r].project, "status_update", "queued")
    /\ requests' = [requests EXCEPT ![r] =
                      [@ EXCEPT !.pc = "done", !.status = 200, !.reply = "queued"]]
    /\ UNCHANGED <<jobs, parsingUpdate, faults, analysisQueue, lookups>>
    /\ UNCHANGED <<shutdown, poller, concurrency>>

SubmitRespond(r) ==
    /\ requests[r].pc = "added"
    /\ published' = emitJobUpdate(published, requests[r].project, "queued")
    /\ sockets' = deliver(sockets, requests[r].project, "status_update", "queued")
    /\ requests' = [requests EXCEPT ![r] =
                      [@ EXCEPT !.pc = "done", !.status = 200, !.reply = "queued"]]
    /\ UNCHANGED <<jobs, parsingUpdate, faults, analysisQueue, lookups>>
    /\ UNCHANGED <<shutdown, poller, concurrency>>

\* The connection to Redis is lost, and comes back.
RedisDown ==
    /\ analysisQueue = "ready"
    /\ analysisQueue' = "offline"
    /\ UNCHANGED <<jobs, published, parsingUpdate, requests, faults, lookups, sockets>>
    /\ UNCHANGED <<shutdown, poller, concurrency>>

RedisUp ==
    /\ analysisQueue = "offline"
    /\ analysisQueue' = "ready"
    /\ UNCHANGED <<jobs, published, parsingUpdate, requests, faults, lookups, sockets>>
    /\ UNCHANGED <<shutdown, poller, concurrency>>

\* ------------------------------------------------- AnalysisWorker.processJob
\* The worker takes a waiting job (at most maxConcurrency at a time; taking
\* a job, like every move of a job in the queue, needs Redis) and
\* processJob starts: status_update(parsing), then waitForParsingComplete is
\* called, which first emits parsing_update(parsing).
ProcessJobStart(i) ==
    /\ analysisQueue = "ready"
    /\ shutdown = "running"
    /\ jobs[i].state = "waiting"
    /\ hasCapacity(ActiveCount, concurrency)
    /\ jobs' = [jobs EXCEPT ![i] = [@ EXCEPT !.state = "active", !.pc = "poll",
                                      !.elapsed = 0, !.error = "none", !.noJson = FALSE]]
    /\ published' = emitJobUpdate(published, jobs[i].id, "parsing")
    /\ sockets' = deliver(sockets, jobs[i].id, "status_update", "parsing")
    /\ parsingUpdate' = [parsingUpdate EXCEPT ![jobs[i].id] = "parsing"]
    /\ UNCHANGED <<requests, faults, analysisQueue, lookups>>
    /\ UNCHANGED <<shutdown, poller, concurrency>>

\* catch (error) { emit analysis_error; throw error }: the call ends
\* rejected and waits for BullMQ to move the job.
Thrown(job, reason) == [job EXCEPT !.pc = "threw", !.error = reason, !.elapsed = 0]

\* Remote statuses getParsingStatus can report that end nothing.
PendingStatuses == {"parsing", "unknown"}

\* One turn of the poll loop whose status request fails: the poller returns
\* the failed result, processJob throws.
PollRequestFails(i) ==
    /\ jobs[i].pc = "poll" /\ jobs[i].elapsed < MaxPolls
    /\ faults > 0
    /\ faults' = faults - 1
    /\ parsingUpdate' = [parsingUpdate EXCEPT ![jobs[i].id] = "error"]
    /\ jobs' = [jobs EXCEPT ![i] = Thrown(@, "parsing_failed")]
    /\ published' = emit(published, jobs[i].id, "analysis_error", "failed")
    /\ sockets' = deliver(sockets, jobs[i].id, "analysis_error", "failed")
    /\ UNCHANGED <<requests, analysisQueue, lookups>>
    /\ UNCHANGED <<shutdown, poller, concurrency>>

\* One turn whose status is failed or error: the poller returns a failure
\* with status 500, processJob throws.
PollFailed_NoThrow(i, st) ==
    /\ jobs[i].pc = "poll" /\ jobs[i].elapsed < MaxPolls
    /\ faults > 0
    /\ faults' = faults - 1
    /\ parsingUpdate' = [parsingUpdate EXCEPT ![jobs[i].id] = "failed"]
    /\ jobs' = [jobs EXCEPT ![i] = [@ EXCEPT !.pc = "agent", !.elapsed = 0]]
    /\ published' = emitJobUpdate(published, jobs[i].id, "ready")
    /\ sockets' = deliver(sockets, jobs[i].id, "status_update", "ready")
    /\ UNCHANGED <<requests, analysisQueue, lookups>>
    /\ UNCHANGED <<shutdown, poller, concurrency>>

PollFailed(i, st) ==
    /\ jobs[i].pc = "poll" /\ jobs[i].elapsed < MaxPolls
    /\ faults > 0
    /\ faults' = faults - 1
    /\ parsingUpdate' = [parsingUpdate EXCEPT ![jobs[i].id] = "failed"]
    /\ jobs' = [jobs EXCEPT ![i] = Thrown(@, "parsing_failed")]
    /\ published' = emit(published, jobs[i].id, "analysis_error", "failed")
    /\ sockets' = deliver(sockets, jobs[i].id, "analysis_error", "failed")
    /\ UNCHANGED <<requests, analysisQueue, lookups>>
    /\ UNCHANGED <<shutdown, poller, concurrency>>

\* One turn whose status is ready: the poller returns success, processJob
\* emits status_update(ready) and calls sendMessage.
PollReady(i) ==
    /\ jobs[i].pc = "poll" /\ jobs[i].elapsed < MaxPolls
    /\ parsingUpdate' = [parsingUpdate EXCEPT ![jobs[i].id] = "ready"]
    /\ jobs' = [jobs EXCEPT ![i] = [@ EXCEPT !.pc = "agent", !.elapsed = 0]]
    /\ published' = emitJobUpdate(published, jobs[i].id, "ready")
    /\ sockets' = deliver(sockets, jobs[i].id, "status_update", "ready")
    /\ UNCHANGED <<requests, faults, analysisQueue, lookups>>
    /\ UNCHANGED <<shutdown, poller, concurrency>>

\* One turn whose status ends nothing: parsing_update(status), then the
\* sleep of one poll interval.  The turn that uses up the last interval
\* makes the timeout certain, so it counts as a failure of the attempt.
PollPending(i, st) ==
    /\ jobs[i].pc = "poll" /\ jobs[i].elapsed < MaxPolls
    /\ IF jobs[i].elapsed + 1 = MaxPolls
       THEN /\ faults > 0
            /\ faults' = faults - 1
       ELSE UNCHANGED faults
    /\ parsingUpdate' = [parsingUpdate EXCEPT ![jobs[i].id] = st]
    /\ jobs' = [jobs EXCEPT ![i] = [@ EXCEPT !.elapsed = @ + 1]]
    /\ UNCHANGED <<requests, published, analysisQueue, lookups, sockets>>
    /\ UNCHANGED <<shutdown, poller, concurrency>>

\* The loop condition fails: parsing_update(timeout), the poller returns the
\* 408 failure, processJob throws.
PollTimeout(i) ==
    /\ jobs[i].pc = "poll" /\ jobs[i].elapsed >= MaxPolls
    /\ parsingUpdate' = [parsingUpdate EXCEPT ![jobs[i].id] = "timeout"]
    /\ jobs' = [jobs EXCEPT ![i] = Thrown(@, "parsing_timeout")]
    /\ published' = emit(published, jobs[i].id, "analysis_error", "failed")
    /\ sockets' = deliver(sockets, jobs[i].id, "analysis_error", "failed")
    /\ UNCHANGED <<requests, faults, analysisQueue, lookups>>
    /\ UNCHANGED <<shutdown, poller, concurrency>>

\* sendMessage resolved with a response on which processJob throws.
AgentThrows(i, resp) ==
    /\ jobs[i].pc = "agent"
    /\ agentStep(resp).throws
    /\ faults > 0
    /\ faults' = faults - 1
    /\ jobs' = [jobs EXCEPT ![i] =
                  [Thrown(@, IF resp.success THEN "type_error" ELSE "agent_failed")
                     EXCEPT !.noJson = NoJsonIn(resp)]]
    /\ published' = emit(published, jobs[i].id, "analysis_error", "failed")
    /\ sockets' = deliver(sockets, jobs[i].id, "analysis_error", "failed")
    /\ UNCHANGED <<requests, parsingUpdate, analysisQueue, lookups>>
    /\ UNCHANGED <<shutdown, poller, concurrency>>

\* sendMessage resolved with a response processJob goes through with: the
\* result is built, status_update(finished) and analysis_complete are
\* emitted, the result is returned.
AgentReturns(i, resp) ==
    /\ jobs[i].pc = "agent"
    /\ ~agentStep(resp).throws
    /\ jobs' = [jobs EXCEPT ![i] =
                  [@ EXCEPT !.pc = "returned",
                            !.result = <<vectorDbData(agentStep(resp).output)>>,
                            !.noJson = NoJsonIn(resp)]]
    /\ published' = emit(emitJobUpdate(published, jobs[i].id, "finished"),
                         jobs[i].id, "analysis_complete", "finished")
    /\ sockets' = deliver(deliver(sockets, jobs[i].id, "status_update", "finished"),
                          jobs[i].id, "analysis_complete", "finished")
    /\ UNCHANGED <<requests, parsingUpdate, faults, analysisQueue, lookups>>
    /\ UNCHANGED <<shutdown, poller, concurrency>>

\* ------------------------------------------------------- BullMQ, the worker
\* The processor rejected: the attempt is counted, the job is delayed for a
\* retry or failed for good, and the worker's 'failed' handler emits
\* status_update(failed).
MoveToFailed(i) ==
    /\ analysisQueue = "ready"
    /\ jobs[i].pc = "threw"
    /\ LET last == ~retryAllowed(jobs[i].attemptsMade + 1)
           moved == [jobs EXCEPT ![i] =
                       [@ EXCEPT !.pc = "idle",
                                 !.attemptsMade = @ + 1,
                                 !.failedReason = jobs[i].error,
                                 !.error = "none",
                                 !.state = IF last THEN "failed" ELSE "delayed",
                                 !.finishedOn = IF last THEN MaxFinishedOn(jobs) + 1 ELSE 0]]
       IN  jobs' = IF last THEN keepLast(moved, "failed", removeOnFail) ELSE moved
    /\ published' = emitJobUpdate(published, jobs[i].id, "failed")
    /\ sockets' = deliver(sockets, jobs[i].id, "status_update", "failed")
    /\ UNCHANGED <<requests, parsingUpdate, faults, analysisQueue, lookups>>
    /\ UNCHANGED <<shutdown, poller, concurrency>>

\* The backoff delay of a delayed job is over.
PromoteDelayed(i) ==
    /\ analysisQueue = "ready"
    /\ jobs[i].state = "delayed"
    /\ jobs' = [jobs EXCEPT ![i] = [@ EXCEPT !.state = "waiting"]]
    /\ UNCHANGED <<requests, published, parsingUpdate, faults, analysisQueue, lookups, sockets>>
    /\ UNCHANGED <<shutdown, poller, concurrency>>

\* The processor resolved: the job is completed with the returned value.
MoveToCompleted(i) ==
    /\ analysisQueue = "ready"
    /\ jobs[i].pc = "returned"
    /\ LET moved == [jobs EXCEPT ![i] =
                       [@ EXCEPT !.pc = "idle", !.state = "completed",
                                 !.attemptsMade = @ + 1,
                                 !.returnvalue = jobs[i].result, !.result = << >>,
                                 !.finishedOn = MaxFinishedOn(jobs) + 1]]
       IN  jobs' = keepLast(moved, "completed", removeOnComplete)
    /\ UNCHANGED <<requests, published, parsingUpdate, faults, analysisQueue, lookups, sockets>>
    /\ UNCHANGED <<shutdown, poller, concurrency>>

\* -------------------------------------------- waitForParsingComplete
\* The poller as a function of what getParsingStatus resolves to on each of
\* its calls.  MaxPolls stands for maxWaitTime / pollInterval: the loop's
\* condition Date.now() - startTime < maxWaitTime holds for the first
\* MaxPolls polls, one pollInterval apart.
\* An answer is success: true with the remote status, or success: false with
\* the status of the failed request.  "unknown" stands for every status that
\* is no key of getParsingStatusMessage's table.
PolledStatuses == {"parsing", "unknown", "ready", "failed", "error"}
PollAnswers ==
    [success : {TRUE}, status : PolledStatuses, code : {0}] \cup
    {[success |-> FALSE, status |-> "none", code |-> 500]}
AnswerSeqs == [1..(MaxPolls + 1) -> PollAnswers]

\* messages[status] || `Parsing status: ${status}`
KnownStatuses ==
    {"queued", "parsing", "processing", "indexing", "ready", "failed", "error", "timeout"}
getParsingStatusMessage(status) ==
    IF status \in KnownStatuses THEN <<"messages", status>> ELSE <<"generic", status>>

\* One parsing_update event.
Update(status, message) == [status |-> status, message |-> message]

\* status === 'failed' || status === 'error'
isFailureStatus_OnlyError(status) == status = "error"

isFailureStatus_Never(status) == FALSE

isFailureStatus_NotKnown(status) == status \notin (KnownStatuses \ {"failed", "error"})

isFailureStatus(status) == status \in {"failed", "error"}

\* The loop from its poll number elapsed + 1 on, updates being the events
\* emitted so far.  The result: success, error.status (0 when there is no
\* error), the number of polls made, of sleeps of one pollInterval taken (one
\* after every poll that ended nothing) and the events emitted.
RECURSIVE pollLoop(_, _, _)
pollLoop(answers, elapsed, updates) ==
    IF ~(elapsed < MaxPolls)
    THEN [success |-> FALSE, status |-> 408, polls |-> elapsed, slept |-> elapsed,
          updates |-> Append(updates, Update("timeout", <<"text", "timeout">>))]
    ELSE LET statusResult == answers[elapsed + 1]
             progress == Append(updates, Update(statusResult.status,
                                                getParsingStatusMessage(statusResult.status)))
         IN  IF ~statusResult.success
             THEN [success |-> FALSE, status |-> statusResult.code, polls |-> elapsed + 1,
                   slept |-> elapsed,
                   updates |-> Append(updates, Update("error", <<"text", "status request failed">>))]
             ELSE IF statusResult.status = "ready"
             THEN [success |-> TRUE, status |-> 0, polls |-> elapsed + 1, slept |-> elapsed,
                   updates |-> Append(progress, Update("ready", <<"text", "completed">>))]
             ELSE IF isFailureStatus(statusResult.status)
             THEN [success |-> FALSE, status |-> 500, polls |-> elapsed + 1, slept |-> elapsed,
                   updates |-> Append(progress, Update("failed", <<"text", "parsing failed">>))]
             ELSE pollLoop(answers, elapsed + 1, progress)

waitForParsingComplete(answers) ==
    pollLoop(answers, 0, <<Update("parsing", <<"text", "starting">>)>>)

\* The call returns.
PollerReturns ==
    /\ poller.pc = "called"
    /\ poller' = [poller EXCEPT !.pc = "returned",
                                !.result = <<waitForParsingComplete(poller.answers)>>]
    /\ UNCHANGED <<jobs, published, parsingUpdate, requests, faults, analysisQueue, lookups,
                   sockets, shutdown, concurrency>>

\* ---------------------------------------------------- gracefulShutdown
\* shutdown is where gracefulShutdown stands:
\*   running   not called
\*   stopping  waiting for analysisWorker.stop(): worker.close() lets the
\*             processor calls that are running end, and takes no other job
\*   closing   waiting for analysisQueue.close()
\*   closed    the queue is closed; io.close() and server.close() were called
\* SIGTERM or SIGINT arrives.
ShutdownSignal ==
    /\ shutdown = "running"
    /\ shutdown' = "stopping"
    /\ UNCHANGED <<jobs, published, parsingUpdate, requests, faults, analysisQueue, lookups,
                   sockets, poller, concurrency>>

\* worker.close() resolves: no job is active any more.
WorkerStopped ==
    /\ shutdown = "stopping"
    /\ ActiveCount = 0
    /\ shutdown' = "closing"
    /\ UNCHANGED <<jobs, published, parsingUpdate, requests, faults, analysisQueue, lookups,
                   sockets, poller, concurrency>>

\* analysisQueue.close() resolves; io.close() and server.close() follow at once.
QueueClosed ==
    /\ shutdown = "closing"
    /\ shutdown' = "closed"
    /\ analysisQueue' = "closed"
    /\ UNCHANGED <<jobs, published, parsingUpdate, requests, faults, lookups,
                   sockets, poller, concurrency>>

\* ------------------------------------------------- GET /status/:projectId
\* The status the handler reports for a job in the queue:
\*   switch (jobState) { case 'waiting': 'queued'; case 'active': 'parsing';
\*     case 'completed': 'finished'; case 'failed': 'failed';
\*     default: status = jobState }
lookupStatus_ActiveFinished(jobState) ==
    CASE jobState = "waiting" -> "queued"
      [] jobState = "active" -> "finished"
      [] jobState = "completed" -> "finished"
      [] jobState = "failed" -> "failed"
      [] OTHER -> jobState

lookupStatus(jobState) ==
    CASE jobState = "waiting" -> "queued"
      [] jobState = "active" -> "parsing"
      [] jobState = "completed" -> "finished"
      [] jobState = "failed" -> "failed"
      [] OTHER -> jobState

\* analysisQueue.getJob(projectId): the job stored under that id, if any.
getJob_OnlyWaiting(q, id) ==
    SelectSeq(q, LAMBDA job : job.id = id /\ job.state = "waiting")

getJob(q, id) == SelectSeq(q, LAMBDA job : job.id = id)

\* What getParsingStatus can resolve to for project p: the provider knows
\* the project and reports its status, or it knows it and the request fails
\* (no response, 401, 500), or it does not know the project (its 404).  A
\* project the provider gave out itself it knows.
RemoteStatuses == {"parsing", "ready"}
ProviderAnswers(p) ==
    [knows : {TRUE}, success : {TRUE}, status : RemoteStatuses] \cup
    {[knows |-> TRUE, success |-> FALSE, status |-> "none"]} \cup
    {[knows |-> FALSE, success |-> FALSE, status |-> "none"] : x \in {p} \ Assigned}

\* The answer of the handler, given the queue and the provider's answer.
statusResponse(queue, q, p, prov) ==
    IF queue = "unset"
    THEN [code |-> 503, source |-> "none", status |-> "none", job_id |-> 0,
          failed_reason |-> "none"]
    ELSE IF getJob(q, p) # << >>
    THEN [code |-> 200, source |-> "queue", status |-> lookupStatus(getJob(q, p)[1].state),
          job_id |-> getJob(q, p)[1].id, failed_reason |-> getJob(q, p)[1].failedReason]
    ELSE IF prov.success
    THEN [code |-> 200, source |-> "potpie_direct", status |-> prov.status, job_id |-> 0,
          failed_reason |-> "none"]
    ELSE [code |-> 404, source |-> "none", status |-> "none", job_id |-> 0,
          failed_reason |-> "none"]

\* One status request, handled when Redis answers (getJob waits for it
\* otherwise).
StatusLookup(l, p, prov) ==
    /\ lookups[l].pc = "idle"
    /\ analysisQueue # "offline"
    /\ lookups' = [lookups EXCEPT ![l] =
          [pc |-> "done", project |-> p,
           code |-> statusResponse(analysisQueue, jobs, p, prov).code,
           source |-> statusResponse(analysisQueue, jobs, p, prov).source,
           status |-> statusResponse(analysisQueue, jobs, p, prov).status,
           job_id |-> statusResponse(analysisQueue, jobs, p, prov).job_id,
           failed_reason |-> statusResponse(analysisQueue, jobs, p, prov).failed_reason,
           inQueue |-> HasJob(jobs, p), knows |-> prov.knows,
           afterSubmit |-> \E r \in DOMAIN requests :
                               requests[r].status = 200 /\ requests[r].project = p]]
    /\ UNCHANGED <<jobs, published, parsingUpdate, requests, faults, analysisQueue, sockets>>
    /\ UNCHANGED <<shutdown, poller, concurrency>>

\* ------------------------------------------------- io.on('connection')
\* The status sent to a socket that joins:
\*   jobState === 'waiting' ? 'queued' : jobState === 'active' ? 'parsing' :
\*   jobState === 'completed' ? 'finished' : jobState === 'failed' ? 'failed'
\*   : jobState
snapshotStatus(jobState) ==
    CASE jobState = "waiting" -> "queued"
      [] jobState = "active" -> "parsing"
      [] jobState = "completed" -> "finished"
      [] jobState = "failed" -> "failed"
      [] OTHER -> jobState

\* The state of the job of room p and the place of its processJob call.
JobSeen(q, p) == [k \in DOMAIN getJob(q, p) |-> [state |-> getJob(q, p)[k].state,
                                                 pc |-> getJob(q, p)[k].pc]]

\* socket.on('join_project'), up to its first await: the socket is put in
\* the room.
JoinProject(s, p) ==
    /\ sockets[s].pc = "connected"
    /\ sockets' = [sockets EXCEPT ![s] =
          [@ EXCEPT !.pc = "joining", !.room = p, !.joinedAt = Len(published[p]),
                    !.jobAtJoin = JobSeen(jobs, p)]]
    /\ UNCHANGED <<jobs, published, parsingUpdate, requests, faults, analysisQueue, lookups>>
    /\ UNCHANGED <<shutdown, poller, concurrency>>

\* The rest of the handler, once getJob and getState have answered: the
\* status of the job, if there is one, is sent to the socket alone.
JoinSnapshot_NoSnapshot(s) ==
    /\ sockets[s].pc = "joining"
    /\ analysisQueue # "offline"
    /\ sockets' = [sockets EXCEPT ![s] =
          [@ EXCEPT !.pc = "joined", !.jobAtSend = JobSeen(jobs, sockets[s].room)]]
    /\ UNCHANGED <<jobs, published, parsingUpdate, requests, faults, analysisQueue, lookups>>
    /\ UNCHANGED <<shutdown, poller, concurrency>>

JoinSnapshot(s) ==
    /\ sockets[s].pc = "joining"
    /\ analysisQueue # "offline"
    /\ sockets' = [sockets EXCEPT ![s] =
          [@ EXCEPT !.pc = "joined",
                    !.jobAtSend = JobSeen(jobs, sockets[s].room),
                    !.received =
                        IF analysisQueue = "ready" /\ getJob(jobs, sockets[s].room) # << >>
                        THEN Append(@, Sent("status_update",
                                 snapshotStatus(getJob(jobs, sockets[s].room)[1].state),
                                 "socket"))
                        ELSE @]]
    /\ UNCHANGED <<jobs, published, parsingUpdate, requests, faults, analysisQueue, lookups>>
    /\ UNCHANGED <<shutdown, poller, concurrency>>

\* socket.on('disconnect'): the socket is in no room any more.
Disconnect(s) ==
    /\ sockets[s].pc = "joined"
    /\ sockets' = [sockets EXCEPT ![s] =
          [@ EXCEPT !.pc = "gone", !.leftAt = Len(published[sockets[s].room])]]
    /\ UNCHANGED <<jobs, published, parsingUpdate, requests, faults, analysisQueue, lookups>>
    /\ UNCHANGED <<shutdown, poller, concurrency>>

\* ------------------------------------------------------------------ Next
\* The requests of RS being handled, the provider answering with ids of PS.
SubmitNext(RS, PS) ==
    \/ \E r \in RS, repo \in BOOLEAN : SubmitRejected(r, repo)
    \/ \E r \in RS, repo \in BOOLEAN, st \in ProviderErrorStatuses : SubmitParseFailed(r, repo, st)
    \/ \E r \in RS, repo \in BOOLEAN, p \in PS : SubmitParsed(r, repo, p)
    \/ \E r \in RS : SubmitRespond(r)

\* The steps of the worker and of the queue, with the agent answering from R.
WorkerNext(R) ==
    \/ \E i \in JobIndexes : ProcessJobStart(i)
    \/ \E i \in JobIndexes : PollRequestFails(i)
    \/ \E i \in JobIndexes, st \in {"failed", "error"} : PollFailed(i, st)
    \/ \E i \in JobIndexes : PollReady(i)
    \/ \E i \in JobIndexes, st \in PendingStatuses : PollPending(i, st)
    \/ \E i \in JobIndexes : PollTimeout(i)
    \/ \E i \in JobIndexes, resp \in R : AgentThrows(i, resp)
    \/ \E i \in JobIndexes, resp \in R : AgentReturns(i, resp)
    \/ \E i \in JobIndexes : MoveToFailed(i)
    \/ \E i \in JobIndexes : PromoteDelayed(i)
    \/ \E i \in JobIndexes : MoveToCompleted(i)

\* The whole service: concurrent requests and jobs, with the environment
\* allowed MaxFaults failures.
Next == SubmitNext(Requests, ProjectIds) \/ WorkerNext(SampleResponses)

Spec == Init /\ [][Next]_vars

\* Every request is for the same repository (project 1), and the environment
\* may make every attempt of its job fail, and one more: the life of one job
\* through all its retries, with repeated submissions at any moment of it.
InitRetry == InitWith(maxRetries + 1)

NextRetry == SubmitNext(Requests, {1}) \/ WorkerNext(SampleResponses)

SpecRetry == InitRetry /\ [][NextRetry]_vars

\* The same, the environment making fewer than maxRetries attempts fail, and
\* the worker and the queue never stopping while they have a step to take.
InitTransient == InitWith(maxRetries - 1)

SpecLive == InitTransient /\ [][NextRetry]_vars /\ WF_vars(WorkerNext(SampleResponses))

\* The same, with a repository whose remote status never gets further than
\* parsing: every poll is pending until the poller times out.
NextNeverReady ==
    \/ SubmitNext(Requests, {1})
    \/ \E i \in JobIndexes : ProcessJobStart(i)
    \/ \E i \in JobIndexes, st \in PendingStatuses : PollPending(i, st)
    \/ \E i \in JobIndexes : PollTimeout(i)
    \/ \E i \in JobIndexes : MoveToFailed(i)
    \/ \E i \in JobIndexes : PromoteDelayed(i)

SpecNeverReady == InitRetry /\ [][NextNeverReady]_vars

\* One submission whose agent may answer anything: processJob's handling of
\* the response over all of AgentResponses.
NextAgent == SubmitNext({1}, {1}) \/ WorkerNext(AgentResponses)

SpecAgent == Init /\ [][NextAgent]_vars

\* The status requests, for any project and any answer of the provider.
LookupNext ==
    \E l \in Lookups, p \in ProjectIds :
        \E prov \in ProviderAnswers(p) : StatusLookup(l, p, prov)

\* Redis going away and coming back, and the submissions made meanwhile.
OutageNext(RS, PS) ==
    \/ RedisDown
    \/ RedisUp
    \/ \E r \in RS, repo \in BOOLEAN, p \in PS : SubmitParsedOffline(r, repo, p)
    \/ \E r \in RS : SubmitAdded(r)

\* The clients joining the rooms of PS and leaving.
SocketNext(PS) ==
    \/ \E s \in Sockets, p \in PS : JoinProject(s, p)
    \/ \E s \in Sockets : JoinSnapshot(s)
    \/ \E s \in Sockets : Disconnect(s)

\* The process being told to stop, and the submissions made while it stops.
ShutdownNext(RS, PS) ==
    \/ ShutdownSignal
    \/ WorkerStopped
    \/ QueueClosed
    \/ \E r \in RS, repo \in BOOLEAN, p \in PS : SubmitAddThrows(r, repo, p)

\* The life of one job with status requests made at any moment of it, for
\* its project and for a project never submitted.
NextStatus == NextRetry \/ LookupNext

SpecStatus == Init /\ [][NextStatus]_vars

\* The life of one job with Redis going away and coming back at any moment.
NextOutage == NextRetry \/ OutageNext(Requests, {1})

SpecOutage == Init /\ [][NextOutage]_vars

\* One submission and its job, the agent failing or answering, with clients
\* joining its room and leaving at any moment.
RoomResponses ==
    {[success |-> FALSE, dataNull |-> FALSE, message |-> NoMessage],
     Text(TRUE, FALSE, "object", EmptyObject)}

NextRooms == SubmitNext({1}, {1}) \/ WorkerNext(RoomResponses) \/ SocketNext({1})

SpecRooms == Init /\ [][NextRooms]_vars

\* The submissions going on while they have a step to take, whatever the
\* worker does: it may stop at any moment, or never take a job.
SpecSubmit == Init /\ [][NextRetry]_vars /\ WF_vars(SubmitNext(Requests, {1}))

\* The whole service with MAX_CONCURRENT_JOBS set below the number of
\* projects, so that more jobs can wait than the worker may run at once.
InitPool == InitEnv(MaxFaults, Num(NumProjects - 1))

SpecPool == InitPool /\ [][Next]_vars

\* One client submitting one repository after the other, each when the job
\* of the one before has ended: the first removeOnFail + 1 jobs fail in all
\* their attempts, the removeOnComplete + 1 jobs after them complete, so that
\* both sets of finished jobs grow past what the queue keeps of them.
FailingJobs == removeOnFail + 1
CleanupJobs == FailingJobs + removeOnComplete + 1

InitCleanup == InitFor(maxRetries * FailingJobs, Undef, 1..CleanupJobs, 1..CleanupJobs)

AllEnded == \A i \in JobIndexes : jobs[i].state \in {"completed", "failed"}
AllAnswered == \A r \in DOMAIN requests : requests[r].pc \in {"idle", "done"}

CleanupResponse == Text(TRUE, FALSE, "object", EmptyObject)

NextCleanup ==
    \/ \E r \in 1..CleanupJobs : AllEnded /\ AllAnswered /\ SubmitParsed(r, TRUE, r)
    \/ \E r \in 1..CleanupJobs : SubmitRespond(r)
    \/ \E i \in JobIndexes : AllAnswered /\ ProcessJobStart(i)
    \/ \E i \in JobIndexes : PollRequestFails(i)
    \/ \E i \in JobIndexes : faults = 0 /\ PollReady(i)
    \/ \E i \in JobIndexes : AgentReturns(i, CleanupResponse)
    \/ \E i \in JobIndexes : MoveToFailed(i)
    \/ \E i \in JobIndexes : PromoteDelayed(i)
    \/ \E i \in JobIndexes : MoveToCompleted(i)

SpecCleanup == InitCleanup /\ [][NextCleanup]_vars

\* The life of one job with the process told to stop at any moment of it.
NextShutdown == NextRetry \/ ShutdownNext(Requests, {1})

SpecShutdown == Init /\ [][NextShutdown]_vars

\* One call of the poller, for every sequence of answers to its polls.
InitPoller ==
    /\ jobs = << >>
    /\ published = [p \in ProjectIds |-> << >>]
    /\ parsingUpdate = [p \in ProjectIds |-> "none"]
    /\ requests = [r \in Requests |-> NoRequest]
    /\ faults = 0
    /\ analysisQueue = "ready"
    /\ lookups = [l \in Lookups |-> NoLookup]
    /\ sockets = [s \in Sockets |-> NoSocket]
    /\ shutdown = "running"
    /\ concurrency = configuredConcurrency(Undef)
    /\ poller \in [pc : {"called"}, answers : AnswerSeqs, result : {<< >>}]

NextPoller == PollerReturns

SpecPoller == InitPoller /\ [][NextPoller]_vars

\* One repository submitted, and submitted again when its job has ended,
\* completed or failed for good, and is still kept by the queue; the
\* requests and the worker going on while they have a step to take.
JobEnded(p) == \E i \in JobIndexes : jobs[i].id = p /\ jobs[i].state \in {"completed", "failed"}

NextResubmit ==
    \/ SubmitParsed(1, TRUE, 1)
    \/ \E r \in Requests \ {1} : JobEnded(1) /\ SubmitParsed(r, TRUE, 1)
    \/ \E r \in Requests : SubmitRespond(r)
    \/ WorkerNext(RoomResponses)

SpecResubmit == InitRetry /\ [][NextResubmit]_vars /\ WF_vars(NextResubmit)

\* ================================================================ claims
\* What a subscriber connected to room p from before the submission has been
\* sent: everything emitted to the room, in order.
Observed(p) == published[p]

IsPrefix(s, t) == Len(s) <= Len(t) /\ \A k \in 1..Len(s) : s[k] = t[k]

CountOf(log, type) == Cardinality({k \in 1..Len(log) : log[k].type = type})

\* The results processJob has produced: returned and not yet stored, or
\* stored as the returnvalue of a completed job.
Results == {jobs[i].result[1] : i \in {j \in JobIndexes : jobs[j].result # << >>}} \cup
           {jobs[i].returnvalue[1] : i \in {j \in JobIndexes : jobs[j].returnvalue # << >>}}

\* ---- C1
\* The events of the claimed order, in the order they were observed.
IsStepEvent(e) ==
    \/ e.type = "status_update" /\ e.status \in {"parsing", "ready", "processing"}
    \/ e.type \in {"analysis_complete", "analysis_error"}

StepsObserved(p) == SelectSeq(Observed(p), IsStepEvent)

StepOrder ==
    <<Ev("status_update", "parsing"), Ev("status_update", "ready"),
      Ev("status_update", "processing")>>

\* C1 (as claimed): for every project, the step events a connected subscriber
\* has observed are status_update(parsing), status_update(ready),
\* status_update(processing) and then the terminal analysis_complete or
\* analysis_error, in this order, none skipped and none repeated; an
\* analysis_error may end the order early, an analysis_complete may not.
C1_StepOrderObserved ==
    \A p \in ProjectIds :
        \/ IsPrefix(StepsObserved(p), StepOrder)
        \/ StepsObserved(p) = Append(StepOrder, Ev("analysis_complete", "finished"))
        \/ \E n \in 1..Len(StepOrder) :
              StepsObserved(p) = Append(SubSeq(StepOrder, 1, n), Ev("analysis_error", "failed"))

\* ---- C2
\* C2 (as claimed): every job that has ended terminally failed has had exactly
\* one analysis_error published to its room over all its attempts, and has
\* its failure reason set.
C2_OneErrorPerFailedJob ==
    \A i \in JobIndexes :
        jobs[i].state = "failed" =>
            /\ CountOf(published[jobs[i].id], "analysis_error") = 1
            /\ jobs[i].failedReason # "none"

\* ---- C3
\* C3: a job in the terminal failed state has made exactly maxRetries
\* attempts, and no step changes a failed job any more: it is not taken by
\* the worker again, whatever is submitted afterwards.
C3_FailedAfterMaxAttempts ==
    /\ [](\A i \in JobIndexes : jobs[i].state = "failed" => jobs[i].attemptsMade = maxRetries)
    /\ [][\A i \in JobIndexes :
            jobs[i].state = "failed" => i \in DOMAIN jobs' /\ jobs'[i] = jobs[i]]_vars

\* A job has failed for good and a submission for its project was answered
\* with the job handle.
C3_Witness ==
    \E i \in JobIndexes :
        /\ jobs[i].state = "failed" /\ jobs[i].attemptsMade = maxRetries
        /\ \A r \in Requests : requests[r].status = 200 /\ requests[r].project = jobs[i].id

\* ---- C4
JobOf(p) == CHOOSE i \in JobIndexes : jobs[i].id = p

\* C4: when the environment makes fewer than maxRetries attempts fail and the
\* worker keeps running, every job that has been queued eventually is
\* completed (finished).
C4_TransientFailuresFinish ==
    \A p \in ProjectIds :
        HasJob(jobs, p) ~> (HasJob(jobs, p) /\ jobs[JobOf(p)].state = "completed")

\* A job is completed on its last allowed attempt, after maxRetries - 1
\* failed ones.
C4_Witness ==
    \E i \in JobIndexes :
        /\ jobs[i].state = "completed" /\ jobs[i].attemptsMade = maxRetries
        /\ CountOf(published[jobs[i].id], "analysis_error") = maxRetries - 1

\* ---- C5
\* processJob is running for job i from the moment the worker took the job
\* until BullMQ has moved it out of active.
Running(i) == jobs[i].state = "active"

\* C5: no two executions of processJob for the same project_id are running
\* at the same time.
C5_NoConcurrentSameProject ==
    \A i, j \in JobIndexes :
        (i # j /\ jobs[i].id = jobs[j].id) => ~(Running(i) /\ Running(j))

\* Both submissions got project_id 1 and the one job of that project is being
\* processed: the worker took it before either submission had emitted queued.
C5_Witness ==
    /\ \A r \in Requests : requests[r].pc \in {"added", "done"} /\ requests[r].project = 1
    /\ \E i \in JobIndexes : jobs[i].id = 1 /\ Running(i)
    /\ Len(published[1]) > 0 /\ published[1][1] = Ev("status_update", "parsing")

\* ---- C6
\* C6: the queue holds at most one job per project_id, and a submission that
\* got as far as queue.add holds the handle of that one job: its job_id is the
\* project_id and the job of that id is in the queue.
C6_OneJobPerProject ==
    /\ \A i, j \in JobIndexes : jobs[i].id = jobs[j].id => i = j
    /\ \A r \in Requests :
          requests[r].pc = "added" \/ requests[r].status = 200 =>
              /\ requests[r].job_id = requests[r].project
              /\ HasJob(jobs, requests[r].job_id)

\* Two submissions with the same project_id were both answered, the job has
\* already failed an attempt and waits for its retry, and there is one job.
C6_Witness ==
    /\ \A r \in Requests : requests[r].status = 200 /\ requests[r].project = 1
    /\ Len(jobs) = 1 /\ jobs[1].state = "delayed"
    /\ published[1][Len(published[1])] = Ev("status_update", "queued")

\* ---- C7
\* C7 (as claimed): a job whose remote status never becomes ready ends
\* terminally failed by the poller's timeout with exactly one analysis_error
\* published to its room.
C7_TimeoutOneError ==
    \A i \in JobIndexes :
        jobs[i].state = "failed" =>
            /\ jobs[i].failedReason = "parsing_timeout"
            /\ CountOf(published[jobs[i].id], "analysis_error") = 1

EmptyResult ==
    [snippets          |-> [kind |-> "array", items |-> << >>],
     snippets_count    |-> Num(0),
     analysis_response |-> "empty",
     metadata          |-> [total_nodes_found |-> Num(0), processed_nodes |-> Num(0)]]

C9_CountsAgree ==
    \A res \in Results :
        /\ res.snippets_count = JsLength(res.snippets)
        /\ res.snippets_count = res.metadata.processed_nodes
        /\ res.snippets.kind = "array" => res.snippets_count = Num(Len(res.snippets.items))

\* A job was completed with MaxSnippets snippets and a total_nodes_found that
\* can only have come from the agent's own metadata.
C9_Witness ==
    \E i \in JobIndexes :
        /\ jobs[i].state = "completed" /\ jobs[i].returnvalue # << >>
        /\ jobs[i].returnvalue[1].snippets_count = Num(MaxSnippets)
        /\ jobs[i].returnvalue[1].metadata.total_nodes_found = Num(MaxSnippets + 1)

\* ---- C10
\* C10 (as claimed): in every result processJob produced,
\* metadata.processed_nodes <= metadata.total_nodes_found.
C10_ProcessedAtMostTotal ==
    \A res \in Results :
        (res.metadata.processed_nodes.def /\ res.metadata.total_nodes_found.def) =>
            res.metadata.processed_nodes.n <= res.metadata.total_nodes_found.n

\* ---- C11
\* C11: a submission without repo is answered 400 and nothing else: its
\* handler has not called parseRepository, holds no job handle, and the step
\* that handles it leaves the queue, the rooms and the sockets as they were.
C11_NoRepoRejected ==
    /\ [](\A r \in Requests :
            (requests[r].pc # "idle" /\ ~requests[r].repo) =>
                /\ requests[r].pc = "done" /\ requests[r].status = 400
                /\ requests[r].parse = "none" /\ requests[r].project = 0
                /\ requests[r].job_id = 0 /\ requests[r].reply = "none")
    /\ [][\A r \in Requests :
            (requests[r].pc = "idle" /\ requests'[r].pc # "idle" /\ ~requests'[r].repo) =>
                jobs' = jobs /\ published' = published /\ sockets' = sockets]_vars

\* A submission without repo was answered 400 while the job of another
\* submission was in the queue, and the queue holds that one job only.
C11_Witness ==
    /\ \E r \in Requests : requests[r].status = 400 /\ ~requests[r].repo
    /\ \E r \in Requests : requests[r].status = 200 /\ requests[r].repo
    /\ Len(jobs) = 1

\* ---- C12
\* C12 (as claimed): a submission with a repo that comes while the queue
\* cannot be reached is answered 503, and no remote parse is started for it
\* (a submission whose parseRepository call itself fails is left to C13).
C12_OfflineRejected ==
    \A r \in Requests :
        (requests[r].offline /\ requests[r].repo /\ requests[r].parse # "failed") =>
            /\ requests[r].parse = "none"
            /\ requests[r].pc = "done" /\ requests[r].status = 503

\* ---- C13
\* C13: when parseRepository fails the submission is answered with the
\* status of the provider's error response, 500 when there was none; it
\* holds no job handle, and the step leaves the queue and the rooms as they
\* were.
C13_ParseFailureBubbled ==
    /\ [](\A r \in Requests :
            requests[r].parse = "failed" =>
                /\ requests[r].pc = "done"
                /\ requests[r].status = (IF requests[r].provider = 0 THEN 500
                                         ELSE requests[r].provider)
                /\ requests[r].job_id = 0 /\ requests[r].reply = "none")
    /\ [][\A r \in Requests :
            (requests[r].pc = "idle" /\ requests'[r].parse = "failed") =>
                jobs' = jobs /\ published' = published /\ sockets' = sockets]_vars

\* One submission was answered with the provider's 401, another, whose
\* provider gave no response, with 500; nothing is queued or published.
C13_Witness ==
    /\ \E r \in Requests : requests[r].provider = 401 /\ requests[r].status = 401
    /\ \E r \in Requests :
          requests[r].parse = "failed" /\ requests[r].provider = 0 /\ requests[r].status = 500
    /\ jobs = << >> /\ \A p \in ProjectIds : published[p] = << >>

\* ---- C14
\* C14: a submission answered 200 carries status queued and a job_id equal
\* to its project_id, and every status request for that project_id handled
\* after the answer finds the job in the queue.
C14_QueuedAndFound ==
    /\ \A r \in Requests :
          requests[r].status = 200 =>
              /\ requests[r].reply = "queued" /\ requests[r].project \in ProjectIds
              /\ requests[r].job_id = requests[r].project
    /\ \A l \in Lookups :
          (lookups[l].pc = "done" /\ lookups[l].afterSubmit) =>
              /\ lookups[l].code = 200 /\ lookups[l].source = "queue"
              /\ lookups[l].job_id = lookups[l].project

\* A status request made after the answer found the job when it was already
\* completed.
C14_Witness ==
    \E l \in Lookups :
        /\ lookups[l].pc = "done" /\ lookups[l].afterSubmit
        /\ lookups[l].source = "queue" /\ lookups[l].status = "finished"

\* ---- C15
\* C15: a submission whose job has been added is answered 200 with its job
\* handle, whatever the worker does: the worker is not required to take any
\* step.
C15_SubmissionReturns ==
    \A r \in Requests :
        (requests[r].pc = "added") ~> (requests[r].pc = "done" /\ requests[r].status = 200)

\* Every submission has been answered and the job has never been taken by
\* the worker.
C15_Witness ==
    /\ \A r \in Requests : requests[r].pc = "done" /\ requests[r].status = 200
    /\ Len(jobs) = 1 /\ jobs[1].state = "waiting" /\ jobs[1].attemptsMade = 0
    /\ parsingUpdate[1] = "none"

\* ---- C16
\* C16 (as claimed): a status request is answered 404 exactly when neither
\* the queue holds the job nor the provider knows the project; when the
\* queue does not hold the job and the provider knows the project, the
\* provider's status is the answer.
C16_NotFoundIffUnknown ==
    \A l \in Lookups :
        lookups[l].pc = "done" =>
            /\ lookups[l].code = 404 <=> (~lookups[l].inQueue /\ ~lookups[l].knows)
            /\ (~lookups[l].inQueue /\ lookups[l].knows) =>
                   (lookups[l].code = 200 /\ lookups[l].source = "potpie_direct"
                    /\ lookups[l].status \in RemoteStatuses)

\* ---- C17
JobStatuses == {"queued", "parsing", "ready", "processing", "finished", "failed"}

\* C17 (as claimed): the status a status request reports for a job in the
\* queue is one of queued, parsing, ready, processing, finished, failed.
C17_StatusInRange ==
    \A l \in Lookups :
        (lookups[l].pc = "done" /\ lookups[l].source = "queue") =>
            lookups[l].status \in JobStatuses

\* ---- C18
\* The statuses that are current for a job seen in a given state and place
\* of processJob; no job: none; a job between a failed attempt and its
\* retry: any.
CurrentStatuses(seen) ==
    IF seen = << >> THEN {}
    ELSE CASE seen[1].state = "waiting" -> {"queued"}
           [] seen[1].state = "active" /\ seen[1].pc = "poll" -> {"parsing"}
           [] seen[1].state = "active" /\ seen[1].pc = "agent" -> {"ready", "processing"}
           [] seen[1].state = "active" /\ seen[1].pc = "returned" -> {"processing", "finished"}
           [] seen[1].state = "completed" -> {"finished"}
           [] seen[1].state = "failed" -> {"failed"}
           [] OTHER -> JobStatuses \cup {"delayed"}

Snapshots(s) == SelectSeq(sockets[s].received, LAMBDA e : e.via = "socket")

RoomEvents(s) == SelectSeq(sockets[s].received, LAMBDA e : e.via = "room")

\* C18 (as claimed): a socket that joined a room whose job existed has been
\* sent exactly one status_update of its own, carrying the status that was
\* current for the job when the socket joined (or, the handler reading the
\* job a moment later, when the status was sent), and not more events of
\* the room than were published after it joined.
C18_SnapshotOnJoin ==
    \A s \in Sockets :
        (sockets[s].pc \in {"joined", "gone"} /\ sockets[s].jobAtJoin # << >>) =>
            /\ Len(Snapshots(s)) = 1
            /\ Snapshots(s)[1].type = "status_update"
            /\ Snapshots(s)[1].status \in
                   CurrentStatuses(sockets[s].jobAtJoin) \cup CurrentStatuses(sockets[s].jobAtSend)
            /\ Len(RoomEvents(s)) <= Len(published[sockets[s].room]) - sockets[s].joinedAt

C21_PoolBounded ==
    /\ ActiveCount <= concurrency
    /\ \A i \in JobIndexes : (jobs[i].state = "active") <=> (jobs[i].pc # "idle")

\* The pool is full while another job waits.
C21_Witness ==
    /\ ActiveCount = concurrency
    /\ \E i \in JobIndexes : jobs[i].state = "waiting"

\* ---- C22
\* The statuses announced for project p by status_update events, in order.
IsStatusUpdate(e) == e.type = "status_update"

StatusTrail(p) == SelectSeq(published[p], IsStatusUpdate)

\* The changes of status the claim allows: one step along queued, parsing,
\* ready, processing, finished; failed from parsing or processing; back to
\* queued from the step a failed attempt was in.
StatusChanges ==
    {<<"queued", "parsing">>, <<"parsing", "ready">>, <<"ready", "processing">>,
     <<"processing", "finished">>, <<"parsing", "failed">>, <<"processing", "failed">>,
     <<"parsing", "queued">>, <<"processing", "queued">>}

\* C22 (as claimed): the status announced for a job only changes along
\* queued -> parsing -> ready -> processing -> finished without skipping a
\* state, failed is entered only from parsing or processing, and while the
\* job has retry budget left a failed attempt is followed by queued and not
\* by failed.
C22_StatusPath ==
    \A p \in ProjectIds :
        /\ \A k \in 1..(Len(StatusTrail(p)) - 1) :
               \/ StatusTrail(p)[k].status = StatusTrail(p)[k + 1].status
               \/ <<StatusTrail(p)[k].status, StatusTrail(p)[k + 1].status>> \in StatusChanges
        /\ \A i \in JobIndexes :
               (jobs[i].id = p /\ jobs[i].state \in {"delayed", "waiting", "active"}
                /\ Len(StatusTrail(p)) > 0)
                   => StatusTrail(p)[Len(StatusTrail(p))].status # "failed"

Kept(q, st) == {i \in DOMAIN q : q[i].state = st}

\* The jobs of q that q2 holds no more.
Removed(q, q2) == {i \in DOMAIN q : ~HasJob(q2, q[i].id)}

\* C24: the queue never holds more than removeOnComplete completed jobs nor
\* more than removeOnFail failed jobs, and a job leaves the queue only as a
\* finished job older than every job of its state that stays, and only when
\* as many of them stay as the queue keeps.
C24_KeepsLastFinished ==
    /\ [](Cardinality(Kept(jobs, "completed")) <= removeOnComplete
          /\ Cardinality(Kept(jobs, "failed")) <= removeOnFail)
    /\ [][\A i \in Removed(jobs, jobs') :
            /\ jobs[i].state \in {"completed", "failed"}
            /\ Cardinality(Kept(jobs', jobs[i].state))
                   = (IF jobs[i].state = "completed" THEN removeOnComplete ELSE removeOnFail)
            /\ \A k \in Kept(jobs', jobs[i].state) :
                   jobs'[k].finishedOn > jobs[i].finishedOn]_vars

\* More jobs have failed and more have completed than the queue keeps, and
\* the first of each kind is gone while the last of each kind is kept.
C24_Witness ==
    /\ Cardinality(Kept(jobs, "failed")) = removeOnFail
    /\ Cardinality(Kept(jobs, "completed")) = removeOnComplete
    /\ ~HasJob(jobs, 1) /\ ~HasJob(jobs, FailingJobs + 1)
    /\ \E i \in Kept(jobs, "failed") : jobs[i].id = FailingJobs
    /\ \E i \in Kept(jobs, "completed") : jobs[i].id = CleanupJobs

\* ---- C25
\* C25 (as claimed): once gracefulShutdown has been called no submission is
\* accepted and no job is added; no job is active when the queue is being
\* closed, every job not finished is left waiting or delayed; and the queue
\* is closed only after the worker has stopped.
C25_ShutdownOrder ==
    /\ [][shutdown # "running" =>
            /\ \A i \in DOMAIN jobs' : HasJob(jobs, jobs'[i].id)
            /\ \A r \in Requests : requests'[r].pc = "added" => requests[r].pc = "added"]_vars
    /\ [](shutdown \in {"closing", "closed"} =>
            \A i \in JobIndexes :
                jobs[i].state \in {"waiting", "delayed", "completed", "failed"}
                /\ jobs[i].pc = "idle")
    /\ [](analysisQueue = "closed" => shutdown = "closed" /\ ActiveCount = 0)

\* ---- C26
\* C26 (as claimed): a status request is answered with a failure reason only
\* when the status it reports is failed; in particular the answer for a job
\* that was requeued after a failed attempt has none.  (The answer has no
\* field for the result, so none is reported in any status.)
C26_ReasonOnlyWhenFailed ==
    \A l \in Lookups :
        (lookups[l].pc = "done" /\ lookups[l].failed_reason # "none")
            => lookups[l].status = "failed"

\* ---- C27
\* C27 (as claimed): a job that has ended, completed or failed for good, and
\* is still kept by the queue holds no token in its data.
C27_TokenGoneWhenEnded ==
    \A i \in JobIndexes :
        jobs[i].state \in {"completed", "failed"} => ~jobs[i].github_token

\* ---- C28
\* The types of the events sent to the room of project p so far.
EventTypes(p) ==
    {published[p][k].type : k \in 1..Len(published[p])} \cup
    (IF parsingUpdate[p] # "none" THEN {"parsing_update"} ELSE {})

\* C28 (as claimed): every event sent to the room of a project, by the
\* submission, by the worker or by the poller, is a status_update, an
\* analysis_complete or an analysis_error.
C28_ThreeEventTypes ==
    \A p \in ProjectIds :
        EventTypes(p) \subseteq {"status_update", "analysis_complete", "analysis_error"}

\* ---- C29
\* The polls of the answers a that end the polling, among those the poller
\* has time for: a status request that failed, or one of the statuses ready,
\* failed, error.
EndingPolls(a) ==
    {k \in 1..MaxPolls : ~a[k].success \/ a[k].status \in {"ready", "failed", "error"}}

FirstOf(S) == CHOOSE k \in S : \A m \in S : k <= m

\* C29: whatever the remote statuses are, the poller returns success exactly
\* when the first ending status it gets within its MaxPolls polls is ready;
\* when that is failed or error it returns a failure that is no timeout
\* (status 500); and when no poll within the time ends the polling it returns
\* the timeout failure, status 408.
C29_PollerOutcome ==
    poller.pc = "returned" =>
        LET a == poller.answers
            res == poller.result[1]
            E == EndingPolls(a)
        IN  /\ res.success <=> (E # {} /\ a[FirstOf(E)].success
                                /\ a[FirstOf(E)].status = "ready")
            /\ (E # {} /\ a[FirstOf(E)].status \in {"failed", "error"})
                   => (~res.success /\ res.status = 500 /\ res.polls = FirstOf(E))
            /\ E = {} => (~res.success /\ res.status = 408 /\ res.polls = MaxPolls)

\* The three outcomes have happened late: ready, or failed, on the last poll
\* there is time for after a pending one.
C29_Witness ==
    /\ poller.pc = "returned"
    /\ poller.answers[1].status = "parsing"
    /\ poller.answers[MaxPolls].status = "failed"
    /\ poller.result[1].polls = MaxPolls /\ poller.result[1].status = 500

\* ---- C30
\* C30: for every poll that got a status the poller has emitted one
\* parsing_update with that status and its message: the table's entry for a
\* known status, the generic text for any other; and a status outside the
\* table does not end the polling: the poller goes on to the next poll, or
\* returns the timeout when there is no time for one.
C30_ProgressPerPoll ==
    poller.pc = "returned" =>
        LET a == poller.answers
            res == poller.result[1]
        IN  /\ \A k \in 1..res.polls :
                   a[k].success =>
                       /\ res.updates[k + 1].status = a[k].status
                       /\ res.updates[k + 1].message =
                              <<IF a[k].status = "unknown" THEN "generic" ELSE "messages",
                                a[k].status>>
            /\ \A k \in 1..MaxPolls :
                   (k <= res.polls /\ a[k].success /\ a[k].status = "unknown") =>
                       IF k < MaxPolls THEN res.polls > k
                       ELSE res.status = 408

\* An unknown status was passed on and the poll after it got ready.
C30_Witness ==
    /\ poller.pc = "returned"
    /\ poller.answers[1].success /\ poller.answers[1].status = "unknown"
    /\ poller.result[1].updates[2] = Update("unknown", <<"generic", "unknown">>)
    /\ poller.result[1].success /\ poller.result[1].polls = 2

\* ---- C31
\* How often status_update(ready) was sent to the room of project p.
ReadyCount(pub, p) ==
    Cardinality({k \in 1..Len(pub[p]) : pub[p][k] = Ev("status_update", "ready")})

\* The statuses of the parsing_update the poller emits last when it returns
\* a failure: the status request failed, the remote status was failed or
\* error, the time was up.
PollerFailures == {"error", "failed", "timeout"}

\* C31: in every attempt, status_update(ready) is sent and the agent is
\* called only in the step in which the poller returns success, and a poller
\* that returns a failure or the timeout ends the attempt with a throw: no
\* ready is sent and the agent is not called before the attempt is over.
C31_ReadyAfterPollerSuccess ==
    [][\A i \in JobIndexes :
          i \in DOMAIN jobs' =>
              /\ (jobs'[i].pc = "agent" /\ jobs[i].pc # "agent") =>
                     (jobs[i].pc = "poll" /\ parsingUpdate'[jobs[i].id] = "ready")
              /\ ReadyCount(published', jobs[i].id) # ReadyCount(published, jobs[i].id) =>
                     /\ jobs[i].pc = "poll" /\ jobs'[i].pc = "agent"
                     /\ parsingUpdate'[jobs[i].id] = "ready"
                     /\ ReadyCount(published', jobs[i].id) = ReadyCount(published, jobs[i].id) + 1
              /\ (jobs[i].pc = "poll" /\ parsingUpdate'[jobs[i].id] \in PollerFailures) =>
                     /\ jobs'[i].pc = "threw"
                     /\ ReadyCount(published', jobs[i].id) = ReadyCount(published, jobs[i].id)
              /\ jobs[i].pc = "threw" => jobs'[i].pc \in {"threw", "idle"}]_vars

\* An attempt whose poller failed was followed by one whose poller returned
\* success: ready was sent once, and the agent is being called.
C31_Witness ==
    \E i \in JobIndexes :
        /\ jobs[i].pc = "agent" /\ jobs[i].attemptsMade >= 1
        /\ jobs[i].failedReason \in {"parsing_failed", "parsing_timeout"}
        /\ ReadyCount(published, jobs[i].id) = 1

\* ---- C32
\* How often processJob was started for project p: it sends
\* status_update(parsing) first thing, and nothing else sends it.
StartCount(p) ==
    Cardinality({k \in 1..Len(published[p]) : published[p][k] = Ev("status_update", "parsing")})

\* C32: the attempts a job has made are never more than maxRetries (and
\* never negative), and processJob has been started for it at most
\* maxRetries times: as often as the attempts made, once more while an
\* attempt is running.
C32_AttemptsBounded ==
    \A i \in JobIndexes :
        /\ 0 <= jobs[i].attemptsMade /\ jobs[i].attemptsMade <= maxRetries
        /\ StartCount(jobs[i].id) <= maxRetries
        /\ StartCount(jobs[i].id) =
               jobs[i].attemptsMade + (IF jobs[i].state = "active" THEN 1 ELSE 0)

\* The last attempt allowed is running.
C32_Witness ==
    \E i \in JobIndexes :
        /\ jobs[i].state = "active" /\ jobs[i].attemptsMade = maxRetries - 1
        /\ StartCount(jobs[i].id) = maxRetries

\* ---- C33
\* C33: the poller returns on the first poll that ends the polling: it has
\* made no status request after it, it has emitted one parsing_update per
\* poll before it and, after it, only those of that poll (the status and the
\* closing event, or the one error event of a failed request); and it has
\* slept one poll interval after every poll but the one it returned on.
C33_StopsAtFirstEnding ==
    poller.pc = "returned" =>
        LET a == poller.answers
            res == poller.result[1]
            E == EndingPolls(a)
        IN  IF E # {}
            THEN /\ res.polls = FirstOf(E)
                 /\ res.slept = res.polls - 1
                 /\ Len(res.updates) = res.polls + (IF a[FirstOf(E)].success THEN 2 ELSE 1)
                 /\ \A k \in 1..(res.polls - 1) : res.updates[k + 1].status = a[k].status
            ELSE /\ res.polls = MaxPolls
                 /\ res.slept = MaxPolls
                 /\ Len(res.updates) = MaxPolls + 2

\* The poller returned on its second poll, a failed status, with a poll
\* left that it had time for or answers it never asked for.
C33_Witness ==
    /\ poller.pc = "returned"
    /\ poller.answers[1].status = "unknown"
    /\ poller.answers[2].status = "failed"
    /\ poller.answers[MaxPolls + 1].status = "ready"
    /\ poller.result[1].polls = 2 /\ poller.result[1].slept = 1

\* ---- C34
\* C34 (as claimed): an analysis_complete or analysis_error sent to the room
\* of a project is the last event the worker sends to it: no status_update
\* of a step, no analysis_complete and no analysis_error follows, in no
\* attempt and from no handler.  (The queued of a submission answered
\* meanwhile is left aside here: it does not come from the job.)
C34_FinalEventLast ==
    \A p \in ProjectIds :
        \A k \in 1..Len(published[p]) :
            published[p][k].type \in {"analysis_complete", "analysis_error"}
                => \A m \in (k + 1)..Len(published[p]) :
                       published[p][m] = Ev("status_update", "queued")

\* ---- C35
\* The place of a status in the step order of a job; 0 for a status that is
\* no step of it (failed, delayed).
StepRank(status) ==
    CASE status = "queued" -> 1
      [] status = "parsing" -> 2
      [] status = "ready" -> 3
      [] status = "processing" -> 4
      [] status = "finished" -> 5
      [] OTHER -> 0

\* C35 (as claimed): the status_update a socket is sent on joining never
\* carries a status that is earlier in the step order than one a
\* status_update of the room has already brought it.
C35_SnapshotNotBackwards ==
    \A s \in Sockets :
        \A k \in 1..Len(sockets[s].received) :
            sockets[s].received[k].via = "socket" =>
                \A m \in 1..(k - 1) :
                    (sockets[s].received[m].type = "status_update"
                     /\ StepRank(sockets[s].received[m].status) > 0
                     /\ StepRank(sockets[s].received[k].status) > 0)
                        => StepRank(sockets[s].received[m].status)
                               <= StepRank(sockets[s].received[k].status)

\* ---- C36
\* C36 (as claimed): a status_update(queued) sent to the room of a project
\* has only status_update(queued) events before it: it never follows
\* status_update(parsing) or an event of a later step.
C36_QueuedBeforeParsing ==
    \A p \in ProjectIds :
        \A k \in 1..Len(published[p]) :
            published[p][k] = Ev("status_update", "queued") =>
                \A m \in 1..(k - 1) : published[p][m] = Ev("status_update", "queued")

\* ---- C37
\* C37: when a status request was answered finished for a project, the
\* analysis_complete of its job had already been sent to the project's room
\* (processJob emits it before it returns the result, and the job is
\* completed only with the result returned).
C37_CompleteBeforeFinished ==
    \A l \in Lookups :
        (lookups[l].pc = "done" /\ lookups[l].status = "finished") =>
            /\ lookups[l].source = "queue"
            /\ CountOf(published[lookups[l].project], "analysis_complete") >= 1

\* A status request was answered finished from the queue.
C37_Witness ==
    \E l \in Lookups :
        /\ lookups[l].pc = "done" /\ lookups[l].status = "finished"
        /\ lookups[l].code = 200 /\ lookups[l].inQueue
        /\ \E i \in JobIndexes : jobs[i].id = lookups[l].project /\ jobs[i].returnvalue # << >>

\* ---- C38
\* C38 (as claimed): a submission answered queued leads to a run of
\* processJob for its job: after the answer to the first submission the job
\* has been started, and after the answer to a submission made when the job
\* had ended the job is processed again.
C38_ResubmissionProcessed ==
    /\ (requests[1].status = 200) ~> (StartCount(1) >= 1)
    /\ \A r \in Requests \ {1} :
           (requests[r].status = 200) ~> (\E i \in JobIndexes : jobs[i].id = 1 /\ Running(i))

====
